---- MODULE Spec2Model ----
(***************************************************************************)
(* ServerListViewSet.list (djchat/server/views.py): the filterable server  *)
(* listing endpoint.  The state is the relational store (Server rows with  *)
(* their category and member relation), the class attribute                *)
(* ServerListViewSet.queryset (a lazy QuerySet object that lives as long   *)
(* as the process and carries Django's result cache), and the request in   *)
(* flight with its response.                                               *)
(***************************************************************************)
EXTENDS Integers, Sequences, FiniteSets, TLC

\* ------------------------------------------------------------- bounds
\* Lifecycle operations (outside the handler) a behaviour may contain.
MaxStoreChanges == 1

ServerIds == {1, 2}
UserIds == {1, 2}
Categories == {"gaming", "music"}

VARIABLES db, queryset, request, response, phase, storeChanges

vars == <<db, queryset, request, response, phase, storeChanges>>

\* ------------------------------------------------ request parameters
\* request.query_params.get(name): None when the parameter is absent
\* (given = FALSE), otherwise its text.  Numeric parameters are kept as
\* character sequences so that int() is modelled by what it does.
Absent(empty) == [given |-> FALSE, text |-> empty]
Given(t) == [given |-> TRUE, text |-> t]

\* Python truthiness of a query parameter: None and "" are falsy.
Truthy(p, empty) == p.given /\ p.text # empty

Digits == <<"0", "1", "2", "3", "4", "5", "6", "7", "8", "9">>
IsDigit(c) == \E d \in 1..10 : Digits[d] = c
DigitValue(c) == (CHOOSE d \in 1..10 : Digits[d] = c) - 1

RECURSIVE DigitsValue(_)
DigitsValue(s) ==
    IF s = <<>> THEN 0
    ELSE 10 * DigitsValue(SubSeq(s, 1, Len(s) - 1)) + DigitValue(s[Len(s)])

\* int(text): an optional sign followed by at least one decimal digit;
\* anything else raises ValueError (ok = FALSE).
int(text) ==
    LET signed == Len(text) > 0 /\ text[1] \in {"-", "+"}
        body == IF signed THEN Tail(text) ELSE text
        ok == Len(body) > 0 /\ \A i \in 1..Len(body) : IsDigit(body[i])
    IN  [ok |-> ok,
         val |-> IF ~ok THEN 0
                 ELSE IF signed /\ text[1] = "-" THEN 0 - DigitsValue(body)
                 ELSE DigitsValue(body)]

\* request.user: AnonymousUser (id None, here 0) or an authenticated user.
AnonymousUser == [is_authenticated |-> FALSE, id |-> 0]
AuthenticatedUser(u) == [is_authenticated |-> TRUE, id |-> u]

CategoryParams == {Absent(""), Given("gaming"), Given("music")}
QtyParams ==
    {Absent(<<>>), Given(<<>>), Given(<<"x">>), Given(<<"-", "1">>),
     Given(<<"0">>), Given(<<"1">>)}
FlagParams == {Absent(""), Given("true"), Given("false")}
ServeridParams ==
    {Absent(<<>>), Given(<<>>), Given(<<"x">>), Given(<<"1">>),
     Given(<<"2">>)}
RequestUsers == {AnonymousUser, AuthenticatedUser(1)}

Requests ==
    [user : RequestUsers, category : CategoryParams, qty : QtyParams,
     by_user : FlagParams, by_serverid : ServeridParams,
     with_num_members : {Absent(""), Given("true")}]

NoRequest ==
    [user |-> AnonymousUser, category |-> Absent(""), qty |-> Absent(<<>>),
     by_user |-> Absent(""), by_serverid |-> Absent(<<>>),
     with_num_members |-> Absent("")]

\* ---------------------------------------------------------- the store
\* db maps the identifier of every existing Server row to its category
\* name and its member relation.
Stores ==
    UNION {[S -> [category : Categories, member : SUBSET UserIds]] :
           S \in SUBSET ServerIds}

RECURSIVE SortedIds(_)
SortedIds(S) ==
    IF S = {} THEN <<>>
    ELSE LET m == CHOOSE x \in S : \A y \in S : x <= y
         IN  <<m>> \o SortedIds(S \ {m})

NoCount == -1

\* Server.objects.all(): one joined row per server, in primary-key order.
\* join is the set of member rows the server is joined with.
BaseRows(d) ==
    LET ids == SortedIds(DOMAIN d)
    IN  [i \in 1..Len(ids) |->
            [id |-> ids[i], category |-> d[ids[i]].category,
             join |-> d[ids[i]].member, num_members |-> NoCount]]

\* ----------------------------------------------------------- QuerySet
\* A QuerySet is its chain of operations plus Django's _result_cache.
NoCache == [filled |-> FALSE, rows |-> <<>>]
Op(name, s, n) == [op |-> name, s |-> s, n |-> n]

\* One operation of the chain applied to the joined rows.
ApplyOp(rows, o) ==
    LET InCategory(r) == r.category = o.s
        HasMember(r) == o.n \in r.join
        HasId(r) == r.id = o.n
    IN  CASE o.op = "category" -> SelectSeq(rows, InCategory)
          [] o.op = "member" ->
                LET kept == SelectSeq(rows, HasMember)
                IN  [i \in 1..Len(kept) |-> [kept[i] EXCEPT !.join = {o.n}]]
          [] o.op = "annotate" ->
                [i \in 1..Len(rows) |->
                    [rows[i] EXCEPT !.num_members = Cardinality(rows[i].join)]]
          [] o.op = "id" -> SelectSeq(rows, HasId)
          [] o.op = "slice" ->
                SubSeq(rows, 1, IF o.n < Len(rows) THEN o.n ELSE Len(rows))
          [] OTHER -> rows

RECURSIVE ApplyOps(_, _)
ApplyOps(rows, ops) ==
    IF ops = <<>> THEN rows
    ELSE ApplyOps(ApplyOp(rows, Head(ops)), Tail(ops))

\* The model instances a database round trip of the chain yields.
Instance(r) == [id |-> r.id, category |-> r.category, num_members |-> r.num_members]
Execute(ops, d) ==
    LET rows == ApplyOps(BaseRows(d), ops)
    IN  [i \in 1..Len(rows) |-> Instance(rows[i])]

\* QuerySet._chain(): filter() and annotate() return a clone without cache.
Chain(qs, o) == [ops |-> Append(qs.ops, o), cache |-> NoCache]

\* Iterating a QuerySet: _fetch_all() fills the cache once and reuses it.
Fetch(qs, d) == IF qs.cache.filled THEN qs.cache.rows ELSE Execute(qs.ops, d)

\* QuerySet.__getitem__ with a slice [:n], n >= 0: a QuerySet whose cache is
\* filled answers with a plain list cut from the cache; otherwise a clone
\* with the limit set.
Slice(qs, n) ==
    IF qs.cache.filled
    THEN [ops |-> qs.ops,
          cache |-> [filled |-> TRUE,
                     rows |-> SubSeq(qs.cache.rows, 1,
                                     IF n < Len(qs.cache.rows) THEN n
                                     ELSE Len(qs.cache.rows))],
          obj |-> "list"]
    ELSE [ops |-> Append(qs.ops, Op("slice", "", n)), cache |-> NoCache,
          obj |-> "clone"]

\* filter()/annotate() on self.queryset: the result is a new object.
Clone(qs, o) == Chain(qs, o) @@ [obj |-> "clone"]

\* Faulty variant of Exists: the emptiness test always passes.
AlwaysExists(qs, d) == TRUE

\* QuerySet.exists(): answered from the cache when filled, else by a query.
Exists(qs, d) == Fetch(qs, d) # <<>>

\* ------------------------------------------------------- the response
Response(kind, data, detail, ref) ==
    [kind |-> kind, data |-> data, detail |-> detail, ref |-> ref]
NoResponse == Response("none", <<>>, "", <<>>)

\* ServerSerializer(..., many=True, context={"num_members": flag}).data
SerializeOne(inst, flag) ==
    [id |-> inst.id, category |-> inst.category,
     has_num_members |-> flag /\ inst.num_members # NoCount,
     num_members |-> IF flag THEN inst.num_members ELSE NoCount]
Serialize(instances, flag) ==
    [i \in 1..Len(instances) |-> SerializeOne(instances[i], flag)]

\* -------------------------------------------------- the list handler
IsTrue(p) == p.given /\ p.text = "true"

\* self.queryset.filter(category__name=category)
FilterByCategory(qs, category) == Clone(qs, Op("category", category, 0))

\* Faulty variant of FilterByUser: the membership filter is not applied.
NoUserFilter(qs, user_id) == qs

\* self.queryset.filter(member=user_id)
FilterByUser(qs, user_id) == Clone(qs, Op("member", "", user_id))

\* self.queryset.annotate(num_members=Count("member"))
AnnotateNumMembers(qs) == Clone(qs, Op("annotate", "", 0))

\* self.queryset.filter(id=by_serverid), by_serverid already converted
FilterById(qs, id) == Clone(qs, Op("id", "", id))

\* by_user without an authenticated identity
ByUserNeedsAuth(req) == IsTrue(req.by_user) /\ ~req.user.is_authenticated

\* Faulty variant of ByServeridNeedsAuth: the check of lines 106-107 is missing.
NoServeridAuthCheck(req) == FALSE

\* by_serverid without an authenticated identity
ByServeridNeedsAuth(req) ==
    Truthy(req.by_serverid, <<>>) /\ ~req.user.is_authenticated

\* Faulty variant of ClassQuerysetAfter: the assignments land on the class
\* attribute, so every later request starts from the chained QuerySet.
SharedQuerysetAfter(cls, final, d) ==
    [ops |-> final.ops,
     cache |-> IF final.obj = "clone" THEN NoCache
               ELSE [filled |-> TRUE, rows |-> Fetch(final, d)]]

\* The class attribute after the request.  self.queryset = ... binds an
\* attribute of the per-request view instance, so the class keeps its own
\* QuerySet object; that object is iterated (and its cache filled) only
\* when the handler chained nothing onto it.
ClassQuerysetAfter(cls, final, d) ==
    IF final.obj = "class"
    THEN [ops |-> cls.ops,
          cache |-> [filled |-> TRUE, rows |-> Fetch(final, d)]]
    ELSE cls

\* Faulty variant of StoreAfterList: the rows the handler fetched are deleted.
DeleteFetched(d, final) ==
    LET rows == Fetch(final, d)
        gone == {rows[i].id : i \in 1..Len(rows)}
    IN  [i \in DOMAIN d \ gone |-> d[i]]

\* The store after the handler's round trips (exists(), the serializer's
\* iteration): both are SELECTs.
StoreAfterList(d, final) == d

\* ServerListViewSet.list: the response and the class attribute after it.
ListOutcome(cls, req, d) ==
    LET unchanged(resp) == [response |-> resp, queryset |-> cls, db |-> d]
        by_user == IsTrue(req.by_user)
        with_num_members == IsTrue(req.with_num_members)
        q0 == [ops |-> cls.ops, cache |-> cls.cache, obj |-> "class"]
        q1 == IF Truthy(req.category, "")
              THEN FilterByCategory(q0, req.category.text) ELSE q0
        q2 == IF by_user THEN FilterByUser(q1, req.user.id) ELSE q1
        q3 == IF with_num_members THEN AnnotateNumMembers(q2) ELSE q2
        sid == int(req.by_serverid.text)
        q4 == IF Truthy(req.by_serverid, <<>>) THEN FilterById(q3, sid.val)
              ELSE q3
        n == int(req.qty.text)
        q5 == IF Truthy(req.qty, <<>>) THEN Slice(q4, n.val) ELSE q4
    IN  IF ByUserNeedsAuth(req)
        THEN unchanged(Response("AuthenticationFailed", <<>>, "", <<>>))
        ELSE IF ByServeridNeedsAuth(req)
        THEN unchanged(Response("AuthenticationFailed", <<>>, "", <<>>))
        ELSE IF Truthy(req.by_serverid, <<>>) /\ ~sid.ok
        THEN unchanged(Response("ValidationError", <<>>,
                                "Server value error", <<>>))
        ELSE IF Truthy(req.by_serverid, <<>>) /\ ~Exists(q4, d)
        THEN unchanged(Response("ValidationError", <<>>,
                                "Could not find server with ID",
                                req.by_serverid.text))
        ELSE IF Truthy(req.qty, <<>>) /\ ~n.ok
        THEN unchanged(Response("fault", <<>>, "ValueError", <<>>))
        ELSE IF Truthy(req.qty, <<>>) /\ n.val < 0
        THEN unchanged(Response("fault", <<>>,
                                "Negative indexing is not supported.", <<>>))
        ELSE [response |->
                  Response("ok", Serialize(Fetch(q5, d), with_num_members),
                           "", <<>>),
              queryset |-> ClassQuerysetAfter(cls, q5, d),
              db |-> StoreAfterList(d, q5)]

\* ------------------------------------------------------------ actions
PristineQueryset == [ops |-> <<>>, cache |-> NoCache]

Init ==
    /\ db \in Stores
    /\ queryset = PristineQueryset
    /\ request = NoRequest
    /\ response = NoResponse
    /\ phase = "idle"
    /\ storeChanges = 0

\* One GET request handled from dispatch to the returned Response.
list ==
    /\ phase = "idle"
    /\ \E req \in Requests :
          LET out == ListOutcome(queryset, req, db)
          IN  /\ request' = req
              /\ response' = out.response
              /\ queryset' = out.queryset
              /\ db' = out.db
    /\ phase' = "responded"
    /\ UNCHANGED storeChanges

\* The response has been sent; the view instance of the request is dropped.
Finish ==
    /\ phase = "responded"
    /\ phase' = "idle"
    /\ request' = NoRequest
    /\ response' = NoResponse
    /\ UNCHANGED <<db, queryset, storeChanges>>

\* Lifecycle outside this code path: a server is created.
CreateServer ==
    /\ phase = "idle"
    /\ storeChanges < MaxStoreChanges
    /\ \E id \in ServerIds \ DOMAIN db, c \in Categories :
          db' = [i \in DOMAIN db \cup {id} |->
                    IF i = id THEN [category |-> c, member |-> {}]
                    ELSE db[i]]
    /\ storeChanges' = storeChanges + 1
    /\ UNCHANGED <<queryset, request, response, phase>>

\* Lifecycle outside this code path: a server is deleted.
DeleteServer ==
    /\ phase = "idle"
    /\ storeChanges < MaxStoreChanges
    /\ \E id \in DOMAIN db : db' = [i \in DOMAIN db \ {id} |-> db[i]]
    /\ storeChanges' = storeChanges + 1
    /\ UNCHANGED <<queryset, request, response, phase>>

Next == list \/ Finish \/ CreateServer \/ DeleteServer

Spec == Init /\ [][Next]_vars

\* --------------------------------------------------------- properties
Responded == phase = "responded"
Authenticated == request.user.is_authenticated
ByUser == IsTrue(request.by_user)
WithNumMembers == IsTrue(request.with_num_members)
HasServerid == Truthy(request.by_serverid, <<>>)
HasQty == Truthy(request.qty, <<>>)
HasCategory == Truthy(request.category, "")
Serverid == int(request.by_serverid.text)
Qty == int(request.qty.text)

DataIdSeq == [i \in 1..Len(response.data) |-> response.data[i].id]
DataIds == {response.data[i].id : i \in 1..Len(response.data)}

\* The servers of the store that pass the filters the request supplies.
Matching ==
    {s \in DOMAIN db :
        /\ HasCategory => db[s].category = request.category.text
        /\ ByUser => request.user.id \in db[s].member
        /\ HasServerid => s = Serverid.val}

\* C1: a request with by_user = "true" or a non-empty by_serverid from an
\* unauthenticated identity ends with the authentication error, whatever
\* the other parameters and the store are.
C1_AuthenticationErrorWins ==
    (Responded /\ ~Authenticated /\ (ByUser \/ HasServerid))
        => response.kind = "AuthenticationFailed"

C1_Witness ==
    /\ Responded /\ ~Authenticated /\ ~ByUser /\ HasServerid
    /\ Serverid.ok /\ Serverid.val \notin DOMAIN db
    /\ response.kind = "AuthenticationFailed"

\* C2: with_num_members = "true" attaches to every returned server a member
\* count equal to the number of users in its member relation, for every
\* combination of the other parameters.
C2_TrueMemberCount ==
    (Responded /\ response.kind = "ok" /\ WithNumMembers)
        => \A i \in 1..Len(response.data) :
              /\ response.data[i].has_num_members
              /\ response.data[i].id \in DOMAIN db
              /\ response.data[i].num_members
                    = Cardinality(db[response.data[i].id].member)

\* C3 (as stated): a by_serverid naming no existing server, or a
\* non-numeric by_serverid, always ends with a validation error.
C3_AlwaysValidationError ==
    (Responded /\ HasServerid
        /\ (~Serverid.ok \/ Serverid.val \notin DOMAIN db))
        => response.kind = "ValidationError"

\* C3 (amended): for an authenticated identity, a by_serverid naming no
\* existing server ends with a validation error referencing that id, and
\* a non-numeric by_serverid ends with a validation error.
C3_ValidationErrorWhenAuthenticated ==
    (Responded /\ Authenticated /\ HasServerid
        /\ (~Serverid.ok \/ Serverid.val \notin DOMAIN db))
        => /\ response.kind = "ValidationError"
           /\ Serverid.ok => response.ref = request.by_serverid.text

C3_Witness ==
    /\ Responded /\ Authenticated /\ HasServerid /\ DOMAIN db # {}
    /\ Serverid.ok /\ Serverid.val \notin DOMAIN db
    /\ response.kind = "ValidationError"
    /\ response.ref = request.by_serverid.text

\* C4: while the store is unchanged, the outcome of every list request
\* equals the outcome the same request has as the first request ever
\* handled: nothing an earlier request did to the queryset alters it.
C4_OutcomeAsFirstRequest ==
    (Responded /\ storeChanges = 0)
        => response = ListOutcome(PristineQueryset, request, db).response

\* A later request: the class queryset was evaluated by an earlier one.
C4_Witness ==
    /\ Responded /\ storeChanges = 0 /\ queryset.cache.filled
    /\ HasQty /\ response.kind = "ok" /\ Len(response.data) = 1
    /\ Cardinality(DOMAIN db) = 2

\* C5: qty = N returns at most N objects, exactly the first N of the set
\* left by the category, by_user and by_serverid filters.
C5_FirstNOfFiltered ==
    (Responded /\ response.kind = "ok" /\ HasQty)
        => LET filtered == SortedIds(Matching)
               k == IF Qty.val < Len(filtered) THEN Qty.val ELSE Len(filtered)
           IN  /\ Len(response.data) <= Qty.val
               /\ DataIdSeq = SubSeq(filtered, 1, k)

\* C6: a successful by_user = "true" request of an authenticated identity
\* returns only servers whose member relation includes the identity, and,
\* before qty truncation, every such server that passes the other filters.
C6_OnlyAndAllServersOfUser ==
    (Responded /\ response.kind = "ok" /\ Authenticated /\ ByUser)
        => /\ \A s \in DataIds :
                s \in DOMAIN db /\ request.user.id \in db[s].member
           /\ DataIds \subseteq Matching
           /\ ~HasQty => DataIds = Matching

C6_Witness ==
    /\ Responded /\ response.kind = "ok" /\ Authenticated /\ ByUser
    /\ ~HasQty /\ DataIds # {} /\ DataIds # DOMAIN db

\* C7: without by_user and by_serverid no authentication is required and
\* the full set of servers, restricted only by category, is returned
\* (stated here for the requests that carry no qty).
C7_FullSetWithoutAuthentication ==
    (Responded /\ ~ByUser /\ ~HasServerid /\ ~HasQty)
        => /\ response.kind = "ok"
           /\ DataIds = Matching

\* C8: the list handler only reads: a list request, successful or failed,
\* leaves the servers, their categories and their member relations as
\* they were.
C8_ListOnlyReads ==
    [][(phase = "idle" /\ phase' = "responded") => db' = db]_vars

C8_Witness ==
    /\ Responded /\ HasServerid /\ response.kind = "ok"
    /\ Len(response.data) = 1 /\ Cardinality(DOMAIN db) = 2

\* C9: an authenticated request with a numeric by_serverid ends with the
\* validation error only if no server with that identifier exists.
C9_ValidationErrorOnlyIfMissing ==
    (Responded /\ Authenticated /\ HasServerid /\ Serverid.ok
        /\ response.kind = "ValidationError")
        => Serverid.val \notin DOMAIN db

\* C10: a request whose qty is absent, empty or an integer string (zero
\* and negative integers included) ends in success, the authentication
\* error or the validation error, never in an unhandled fault.
C10_OnlyNonNumericQtyFaults ==
    (Responded /\ (~HasQty \/ Qty.ok))
        => response.kind \in {"ok", "AuthenticationFailed", "ValidationError"}

====
